---- MODULE Spec2Model ----
(***************************************************************************)
(* Call signalling and presence relay of the Internal-ChatApp backend.     *)
(*                                                                         *)
(* The model follows the socket handlers of server.js, the REST routes of  *)
(* routes/calls.js and routes/groupCalls.js, and the Call / GroupCall      *)
(* mongoose models.  One action per handler; every handler runs to         *)
(* completion in one step.  The events a handler emits are kept in         *)
(* `emitted` (in emission order) and its HTTP status / outcome in `lastOp`,*)
(* so that what one handler did is visible in the state it leaves.         *)
(***************************************************************************)
EXTENDS Integers, Sequences, FiniteSets, TLC

VARIABLES
    activeUsers,   \* server.js:66    Map userId -> socketId (NoSocket: no entry)
    sockets,       \* the open socket.io connections: records [id, userId]
    now,           \* the wall clock, in ticks of MsPerTick milliseconds
    call,          \* the Call document "c1" (exists = FALSE before it is created)
    groupCall,     \* the GroupCall document "g1"
    rev,           \* which revision of the GroupCall model file is loaded
    lastOp,        \* the handler that ran last, and its outcome
    emitted,       \* the events that handler emitted, in order
    lastRoster,    \* payload of the most recent "group-call-participants" event
    joining,       \* per user: the document a join request in flight has loaded
    members,       \* the user ids in group.members of the group the calls belong to
    groupCalls,    \* the GroupCall documents of the group, in order of creation
    initiating     \* the users whose POST /initiate has passed its checks

vars == <<activeUsers, sockets, now, call, groupCall, rev,
          lastOp, emitted, lastRoster, joining, members, groupCalls, initiating>>

(***************************************************************************)
(* Bounds of the model.                                                    *)
(***************************************************************************)
MaxConns == 2      \* connections one user holds open at a time (SpecInitiate)
MaxTime    == 1      \* clock ticks in one behaviour
MsPerTick  == 1000   \* milliseconds per clock tick
MaxParticipants == 3 \* capacity of the group call (the schema default is larger)
MaxRoster  == 4      \* participant entries one GroupCall document may collect
MaxRelayRoster == 3  \* the same, where the socket relay runs beside the routes
MaxCandidates == 2   \* ICE candidates one Call document may collect
MaxFaultRoster == 2  \* participant entries where both kinds of call run together
MaxCalls == 3        \* GroupCall documents one group collects

Users   == {"u1", "u2", "u3"}
Null    == "null"
NoSocket == 0

\* identifiers a client may send as receiverId: a user, nothing, an id no
\* user has, a string that is no ObjectId
GhostId == "ghost"
BadId   == "bad-id"
\* call ids a client may send: the document's id, nothing, an id of no document
TheCallId  == "c1"
OtherCallId == "c9"
CallIdInputs == {TheCallId, OtherCallId, Null}

SdpInputs == {Null, "sdp"}

TheGroupCallId == "g1"
\* the group the model follows, and the group ids a client may send: the
\* group's id, nothing, an id of no group
TheGroupId == "grp"
GroupIdInputs == {TheGroupId, Null, "grp9"}
\* the members of the group
Members == members
\* the members holding the group's admin role (the creator of the group)
GroupAdmins == {"u2"}
\* the users whose POST /initiate of a group call the model follows
Hosts == {"u1"}

\* the users whose POST /initiate the model follows (the route treats all alike)
Callers == {"u1"}
Receivers == {"u2"}

(***************************************************************************)
(* Events and outcomes.                                                    *)
(***************************************************************************)
Msg(ev, to, err, user, list) ==
    [event |-> ev, to |-> to, error |-> err, user |-> user, list |-> list]

Op(op, via, user, socket, target, ok, err) ==
    [op |-> op, via |-> via, user |-> user, socket |-> socket,
     target |-> target, ok |-> ok, error |-> err]

NoOp == Op("none", "none", Null, NoSocket, Null, TRUE, Null)

OpenIds == {s.id : s \in sockets}

\* the indexes of the events named ev in a sequence of emitted events
EventsNamed(seq, ev) == {i \in 1..Len(seq) : seq[i].event = ev}

\* a set of socket ids in ascending order, as the adapter walks them
RECURSIVE SortedIds(_)
SortedIds(S) ==
    IF S = {} THEN <<>>
    ELSE LET m == CHOOSE x \in S : \A y \in S : x <= y
         IN <<m>> \o SortedIds(S \ {m})

\* socket.broadcast.emit(ev): one event to every connection but the sender's
RECURSIVE BroadcastTo(_, _, _)
BroadcastTo(ids, ev, user) ==
    IF ids = <<>> THEN <<>>
    ELSE <<Msg(ev, Head(ids), Null, user, <<>>)>> \o BroadcastTo(Tail(ids), ev, user)

(***************************************************************************)
(* Documents.                                                              *)
(***************************************************************************)
NoCall ==
    [exists |-> FALSE, caller |-> Null, receiver |-> Null, status |-> Null,
     startTime |-> 0, endTime |-> -1, duration |-> 0,
     offer |-> Null, answer |-> Null, iceCandidates |-> <<>>]

NoGroupCall ==
    [exists |-> FALSE, initiator |-> Null, status |-> Null,
     startTime |-> 0, endTime |-> -1, duration |-> 0,
     maxParticipants |-> 0, participants |-> <<>>]

\* JSON.stringify of an SDP payload
JSONStringify(x) == IF x = "sdp" THEN "\"sdp\"" ELSE x

\* Call.findById(callId)
FindCall(callId) == IF callId = TheCallId /\ call.exists THEN call ELSE NoCall

(***************************************************************************)
(* Initial state: server started, nobody connected, no documents.          *)
(***************************************************************************)
InitWith(m) ==
    /\ members = m
    /\ groupCalls = <<>>
    /\ initiating = {}
    /\ activeUsers = [u \in Users |-> NoSocket]
    /\ sockets = {}
    /\ now = 0
    /\ call = NoCall
    /\ groupCall = NoGroupCall
    /\ rev \in {"part_004", "part_005"}
    /\ lastOp = NoOp
    /\ emitted = <<>>
    /\ lastRoster = <<>>
    /\ joining = [u \in Users |-> NoGroupCall]

\* the group every user is a member of
Init == InitWith(Users)

(***************************************************************************)
(* Connection gateway.                                                     *)
(***************************************************************************)
\* a connection's id: socket.io draws a random id; the model names a
\* connection by its user and the first slot free among that user's
\* open connections
UserIndex(u) == CASE u = "u1" -> 1 [] u = "u2" -> 2 [] u = "u3" -> 3

SocketId(u, slot) == (slot - 1) * Cardinality(Users) + UserIndex(u)

FreshId(u) ==
    SocketId(u, CHOOSE n \in 1..(Cardinality(sockets) + 1) :
                    /\ SocketId(u, n) \notin OpenIds
                    /\ \A m \in 1..(n - 1) : SocketId(u, m) \in OpenIds)

OpenCount(u) == Cardinality({s \in sockets : s.userId = u})

\* a registration that keeps the entry the user already has
RegisterIfAbsent(u, id) ==
    IF activeUsers[u] = NoSocket THEN [activeUsers EXCEPT ![u] = id]
    ELSE activeUsers

\* activeUsers.set(socket.userId, {socketId, ...})
Register(u, id) == [activeUsers EXCEPT ![u] = id]

\* io.on("connection"): register presence (replacing any older entry),
\* broadcast user-online to the other connections, send the snapshot
Connect(u) ==
    /\ sockets' = sockets \cup {[id |-> FreshId(u), userId |-> u]}
    /\ activeUsers' = Register(u, FreshId(u))
    /\ emitted' = BroadcastTo(SortedIds(OpenIds), "user-online", u)
                    \o <<Msg("online-users", FreshId(u), Null, Null, <<>>)>>
    /\ lastOp' = Op("connection", "socket", u, FreshId(u), Null, TRUE, Null)
    /\ UNCHANGED <<now, call, groupCall, rev, members, groupCalls, initiating, lastRoster, joining>>

\* a disconnect handler that ends the group call its user is the host of
EndOnDisconnect(gc, userId) ==
    IF gc.exists /\ gc.initiator = userId /\ gc.status # "ended"
    THEN [gc EXCEPT !.status = "ended", !.endTime = now]
    ELSE gc

\* what the disconnect handler does to the GroupCall the user is in: the
\* handler loads no Call or GroupCall (it writes User.lastSeen only)
OnDisconnect(gc, userId) == gc

\* socket.on("disconnect"): delete the user's entry, broadcast user-offline
Disconnect(s) ==
    /\ s \in sockets
    /\ sockets' = sockets \ {s}
    /\ activeUsers' = [activeUsers EXCEPT ![s.userId] = NoSocket]
    /\ emitted' = BroadcastTo(SortedIds(OpenIds \ {s.id}), "user-offline", s.userId)
    /\ lastOp' = Op("disconnect", "socket", s.userId, s.id, Null, TRUE, Null)
    /\ groupCall' = OnDisconnect(groupCall, s.userId)
    /\ UNCHANGED <<now, call, rev, members, groupCalls, initiating, lastRoster, joining>>

\* the handshake tokens a client may present: none, a forged or expired
\* one, a good one of a deleted user, a good one of a user
Tokens == [present : BOOLEAN, signed : BOOLEAN, userId : Users \cup {GhostId}]

\* a check that decodes the token without verifying its signature
AuthErrorUnverified(token) ==
    IF ~token.present THEN "Authentication error: No token provided"
    ELSE IF token.userId \notin Users
    THEN "Authentication error: User not found"
    ELSE Null

\* io.use: the error the handshake ends with, Null when it passes
AuthError(token) ==
    IF ~token.present THEN "Authentication error: No token provided"
    ELSE IF ~token.signed THEN "Authentication error: Invalid token"
    ELSE IF token.userId \notin Users
    THEN "Authentication error: User not found"
    ELSE Null

\* a connection attempt: io.use, then io.on("connection") if it passed
Handshake(token) ==
    IF AuthError(token) # Null
    THEN /\ emitted' = <<>>
         /\ lastOp' = Op("connection", "socket", Null, NoSocket, Null, FALSE,
                         AuthError(token))
         /\ UNCHANGED <<activeUsers, sockets, now, call, groupCall, rev, members, groupCalls, initiating,
                        lastRoster, joining>>
    ELSE Connect(token.userId)

\* socket.on("send-message"): the message goes to the receiver's personal
\* room, that is to every open connection of the receiver but the sender's
SendMessage(s, receiver) ==
    /\ s \in sockets
    /\ emitted' =
          BroadcastTo(SortedIds({t.id : t \in {x \in sockets :
                                    x.userId = receiver /\ x.id # s.id}}),
                      "receive-message", s.userId)
          \o <<Msg("message-sent", s.id, Null, receiver, <<>>)>>
    /\ lastOp' = Op("send-message", "socket", s.userId, s.id, receiver, TRUE, Null)
    /\ UNCHANGED <<activeUsers, sockets, now, call, groupCall, rev, members, groupCalls, initiating,
                   lastRoster, joining>>

\* time passes
Tick ==
    /\ now < MaxTime
    /\ now' = now + 1
    /\ UNCHANGED <<activeUsers, sockets, call, groupCall, rev, members, groupCalls, initiating,
                   lastOp, emitted, lastRoster, joining>>

(***************************************************************************)
(* 1:1 calls: the Call model.                                              *)
(***************************************************************************)
MsPerSecond == 1000

\* callSchema.virtual("calculatedDuration"): whole seconds between the two
\* timestamps, 0 while one of them is missing
calculatedDuration(c) ==
    IF c.endTime >= 0
    THEN ((c.endTime - c.startTime) * MsPerTick) \div MsPerSecond
    ELSE 0

\* callSchema.methods.endCall
endCall(c) ==
    LET ended == [c EXCEPT !.status = "ended", !.endTime = now]
    IN  [ended EXCEPT !.duration = calculatedDuration(ended)]

\* callSchema.methods.markAsDeclined
markAsDeclined(c) == [c EXCEPT !.status = "declined", !.endTime = now]

\* the party of the call other than u (the caller, when u is no party)
OtherParty(c, u) == IF c.caller = u THEN c.receiver ELSE c.caller

\* an emit that does not look whether the user has an entry
ToUserUnchecked(u, ev, from) == <<Msg(ev, activeUsers[u], Null, from, <<>>)>>

\* one event to the user's registered connection, nothing without an entry
ToUser(u, ev, from) ==
    IF activeUsers[u] # NoSocket
    THEN <<Msg(ev, activeUsers[u], Null, from, <<>>)>>
    ELSE <<>>

CallError(s, text) == <<Msg("call-error", s.id, text, Null, <<>>)>>

\* a socket handler that ends in an error event to the sender, Call untouched
SocketReject(s, op, target, text) ==
    /\ emitted' = CallError(s, text)
    /\ lastOp' = Op(op, "socket", s.userId, s.id, target, FALSE, text)
    /\ UNCHANGED call

\* a REST handler that answers with an error status, Call untouched
RestReject(u, op, target, text) ==
    /\ emitted' = <<>>
    /\ lastOp' = Op(op, "rest", u, NoSocket, target, FALSE, text)
    /\ UNCHANGED call

callFrame ==
    UNCHANGED <<activeUsers, sockets, now, groupCall, rev, members, groupCalls, initiating, lastRoster, joining>>

(***************************************************************************)
(* 1:1 calls: REST routes (routes/calls.js).                               *)
(***************************************************************************)
\* POST /initiate: creates the Call document
RestCallInitiate(u, receiverId) ==
    /\ ~call.exists
    /\ IF receiverId \notin Users
       THEN RestReject(u, "call-create", receiverId, "Receiver not found")
       ELSE IF u = receiverId
       THEN RestReject(u, "call-create", receiverId, "Cannot call yourself")
       ELSE /\ call' = [NoCall EXCEPT !.exists = TRUE, !.caller = u,
                                      !.receiver = receiverId,
                                      !.status = "initiated", !.startTime = now]
            /\ emitted' = <<>>
            /\ lastOp' = Op("call-create", "rest", u, NoSocket, receiverId, TRUE, Null)
    /\ callFrame

\* PUT /:callId/answer
RestCallAnswer(u, callId, answer) ==
    /\ LET c == FindCall(callId) IN
       IF ~c.exists
       THEN RestReject(u, "call-answer", callId, "Call not found")
       ELSE IF c.receiver # u
       THEN RestReject(u, "call-answer", callId, "Not authorized to answer this call")
       ELSE IF c.status # "initiated" /\ c.status # "ringing"
       THEN RestReject(u, "call-answer", callId, "Call is no longer active")
       ELSE /\ call' = [c EXCEPT !.status = "answered",
                                 !.answer = IF answer # Null THEN answer ELSE @]
            /\ emitted' = <<>>
            /\ lastOp' = Op("call-answer", "rest", u, NoSocket, callId, TRUE, Null)
    /\ callFrame

\* PUT /:callId/decline
RestCallDecline(u, callId) ==
    /\ LET c == FindCall(callId) IN
       IF ~c.exists
       THEN RestReject(u, "call-decline", callId, "Call not found")
       ELSE IF c.receiver # u
       THEN RestReject(u, "call-decline", callId, "Not authorized to decline this call")
       ELSE /\ call' = markAsDeclined(c)
            /\ emitted' = <<>>
            /\ lastOp' = Op("call-decline", "rest", u, NoSocket, callId, TRUE, Null)
    /\ callFrame

\* PUT /:callId/end
RestCallEnd(u, callId) ==
    /\ LET c == FindCall(callId) IN
       IF ~c.exists
       THEN RestReject(u, "call-end", callId, "Call not found")
       ELSE IF c.caller # u /\ c.receiver # u
       THEN RestReject(u, "call-end", callId, "Not authorized to end this call")
       ELSE /\ call' = endCall(c)
            /\ emitted' = <<>>
            /\ lastOp' = Op("call-end", "rest", u, NoSocket, callId, TRUE, Null)
    /\ callFrame

(***************************************************************************)
(* 1:1 calls: socket handlers (server.js).                                 *)
(***************************************************************************)
\* a lookup that answers with the oldest connection the receiver holds open
ReceiverEntryOldest(receiverId) ==
    IF receiverId \in Users /\ OpenCount(receiverId) > 0
    THEN CHOOSE id \in {s.id : s \in {t \in sockets : t.userId = receiverId}} :
            \A s \in sockets : s.userId = receiverId => id <= s.id
    ELSE NoSocket

\* activeUsers.get(receiverId): the connection registered for the receiver
ReceiverEntry(receiverId) ==
    IF receiverId \in Users THEN activeUsers[receiverId] ELSE NoSocket

\* socket.on("call-initiate"): relays only, the Call document is not touched.
\* The confirmation goes out before the presence lookup.
CallInitiate(s, receiverId) ==
    /\ s \in sockets
    /\ IF receiverId = Null
       THEN SocketReject(s, "call-initiate", receiverId, "Receiver ID is required")
       ELSE IF receiverId = BadId   \* User.findById throws a CastError
       THEN SocketReject(s, "call-initiate", receiverId, "Failed to initiate call")
       ELSE LET entry == ReceiverEntry(receiverId)
                confirm == <<Msg("call-initiated", s.id, Null, receiverId, <<>>)>>
            IN  /\ emitted' = confirm \o
                     (IF entry # NoSocket
                      THEN <<Msg("incoming-call", entry, Null, s.userId, <<>>)>>
                      ELSE <<Msg("call-error", s.id, "Receiver is not online",
                                 receiverId, <<>>)>>)
                /\ lastOp' = Op("call-initiate", "socket", s.userId, s.id, receiverId,
                                entry # NoSocket,
                                IF entry # NoSocket THEN Null
                                ELSE "Receiver is not online")
                /\ UNCHANGED call
    /\ callFrame

\* socket.on("call-answer")
\* a handler in which a rejected save goes unnoticed
NeverAborts(saved) == FALSE

\* await call.save() inside the handler's try block: a rejected save throws
\* into the catch, which emits the handler's error event and returns
SaveAborts(saved) == ~saved

\* socket.on("call-answer"); saved: whether call.save() is fulfilled
CallAnswerWith(s, callId, answer, saved) ==
    /\ s \in sockets
    /\ LET c == FindCall(callId) IN
       IF callId = Null
       THEN SocketReject(s, "call-answer", callId, "Call ID is required")
       ELSE IF ~c.exists
       THEN SocketReject(s, "call-answer", callId, "Call not found")
       ELSE IF c.receiver # s.userId
       THEN SocketReject(s, "call-answer", callId, "Not authorized to answer this call")
       ELSE IF SaveAborts(saved)
       THEN SocketReject(s, "call-answer", callId, "Failed to answer call")
       ELSE /\ call' = [c EXCEPT !.status = "answered",
                                 !.answer = IF answer # Null
                                            THEN JSONStringify(answer) ELSE @]
            /\ emitted' = ToUser(c.caller, "call-answered", s.userId)
            /\ lastOp' = Op("call-answer", "socket", s.userId, s.id, callId, TRUE, Null)
    /\ callFrame

CallAnswer(s, callId, answer) == CallAnswerWith(s, callId, answer, TRUE)

\* socket.on("call-decline")
CallDeclineWith(s, callId, saved) ==
    /\ s \in sockets
    /\ LET c == FindCall(callId) IN
       IF ~c.exists
       THEN SocketReject(s, "call-decline", callId, "Call not found")
       ELSE IF c.receiver # s.userId
       THEN SocketReject(s, "call-decline", callId, "Not authorized to decline this call")
       ELSE IF SaveAborts(saved)
       THEN SocketReject(s, "call-decline", callId, "Failed to decline call")
       ELSE /\ call' = markAsDeclined(c)
            /\ emitted' = <<Msg("call-declined", s.id, Null, Null, <<>>)>>
                            \o ToUser(c.caller, "call-declined", s.userId)
            /\ lastOp' = Op("call-decline", "socket", s.userId, s.id, callId, TRUE, Null)
    /\ callFrame

CallDecline(s, callId) == CallDeclineWith(s, callId, TRUE)

\* socket.on("call-end")
CallEndWith(s, callId, saved) ==
    /\ s \in sockets
    /\ LET c == FindCall(callId) IN
       IF ~c.exists
       THEN SocketReject(s, "call-end", callId, "Call not found")
       ELSE IF c.caller # s.userId /\ c.receiver # s.userId
       THEN SocketReject(s, "call-end", callId, "Not authorized to end this call")
       ELSE IF SaveAborts(saved)
       THEN SocketReject(s, "call-end", callId, "Failed to end call")
       ELSE /\ call' = endCall(c)
            /\ emitted' = <<Msg("call-ended", s.id, Null, Null, <<>>)>>
                            \o ToUser(OtherParty(c, s.userId), "call-ended", s.userId)
            /\ lastOp' = Op("call-end", "socket", s.userId, s.id, callId, TRUE, Null)
    /\ callFrame

CallEnd(s, callId) == CallEndWith(s, callId, TRUE)

\* a side write whose failure aborts the handler like any other save
AbortsOnFailure(saved) == ~saved

\* the save of ice-candidate sits in a try block of its own with an empty
\* catch: whatever it does, the handler goes on
SideWriteAborts(saved) == FALSE

\* what a client may send as offer, answer or candidate
CandidateInputs == {Null, "cand"}

\* socket.on("call-offer"): only the caller; stores the offer, relays it to
\* the receiver's registered connection
CallOffer(s, callId, offer, saved) ==
    /\ s \in sockets
    /\ LET c == FindCall(callId) IN
       IF callId = Null \/ offer = Null
       THEN SocketReject(s, "call-offer", callId, "Call ID and offer are required")
       ELSE IF ~c.exists
       THEN SocketReject(s, "call-offer", callId, "Call not found")
       ELSE IF c.caller # s.userId
       THEN SocketReject(s, "call-offer", callId, "Not authorized to send offer")
       ELSE IF SaveAborts(saved)
       THEN SocketReject(s, "call-offer", callId, "Failed to send call offer")
       ELSE /\ call' = [c EXCEPT !.offer = JSONStringify(offer)]
            /\ emitted' = ToUser(c.receiver, "call-offer", s.userId)
            /\ lastOp' = Op("call-offer", "socket", s.userId, s.id, callId, TRUE, Null)
    /\ callFrame

\* socket.on("call-answer-webrtc"): only the receiver
CallAnswerWebrtc(s, callId, answer, saved) ==
    /\ s \in sockets
    /\ LET c == FindCall(callId) IN
       IF callId = Null \/ answer = Null
       THEN SocketReject(s, "call-answer-webrtc", callId,
                         "Call ID and answer are required")
       ELSE IF ~c.exists
       THEN SocketReject(s, "call-answer-webrtc", callId, "Call not found")
       ELSE IF c.receiver # s.userId
       THEN SocketReject(s, "call-answer-webrtc", callId,
                         "Not authorized to send answer")
       ELSE IF SaveAborts(saved)
       THEN SocketReject(s, "call-answer-webrtc", callId, "Failed to send answer")
       ELSE /\ call' = [c EXCEPT !.answer = JSONStringify(answer)]
            /\ emitted' = ToUser(c.caller, "call-answer-webrtc", s.userId)
            /\ lastOp' = Op("call-answer-webrtc", "socket", s.userId, s.id, callId,
                            TRUE, Null)
    /\ callFrame

\* socket.on("ice-candidate"): the sender is not compared with the parties
\* of the call; the candidate is pushed and saved (saved: whether that
\* save is fulfilled), then relayed to the other party, which is the
\* caller for every sender but the caller
IceCandidate(s, callId, candidate, saved) ==
    /\ s \in sockets
    /\ LET c == FindCall(callId) IN
       IF callId = Null \/ candidate = Null
       THEN SocketReject(s, "ice-candidate", callId,
                         "Call ID and candidate are required")
       ELSE IF ~c.exists
       THEN SocketReject(s, "ice-candidate", callId, "Call not found")
       ELSE IF SideWriteAborts(saved)
       THEN SocketReject(s, "ice-candidate", callId, "Failed to send ICE candidate")
       ELSE /\ call' = IF saved
                       THEN [c EXCEPT !.iceCandidates = Append(@, candidate)]
                       ELSE c
            /\ emitted' = ToUser(OtherParty(c, s.userId), "ice-candidate", s.userId)
            /\ lastOp' = Op("ice-candidate", "socket", s.userId, s.id, callId,
                            TRUE, Null)
    /\ callFrame

(***************************************************************************)
(* Group calls: the GroupCall model (two revisions of the model file).     *)
(***************************************************************************)
\* a participant entry that is given the host role whatever role is asked
ParticipantAsHost(userId, role) ==
    [user |-> userId, role |-> "host", isActive |-> TRUE, leftAt |-> -1,
     isMuted |-> FALSE, isVideoEnabled |-> TRUE]

Participant(userId, role) ==
    [user |-> userId, role |-> role, isActive |-> TRUE, leftAt |-> -1,
     isMuted |-> FALSE, isVideoEnabled |-> TRUE]

\* p.user.toString(): the id for an ObjectId; for a populated User document
\* mongoose's Document.prototype.toString, the document's inspect() dump
UserToString(userId, populated) ==
    IF populated THEN "{ _id: " \o userId \o ", name, avatar, email }" ELSE userId

\* indexes of the entries a predicate on (index) selects, first match of find()
FirstIndex(S) == CHOOSE i \in S : \A j \in S : i <= j

\* groupCallSchema.statics.createGroupCall
createGroupCall(initiatorId) ==
    [NoGroupCall EXCEPT !.exists = TRUE, !.initiator = initiatorId,
                        !.status = "initiated", !.startTime = now,
                        !.maxParticipants = MaxParticipants,
                        !.participants = <<Participant(initiatorId, "host")>>]

\* the entries addParticipant's find() matches
AddMatches(gc, userId, populated) ==
    {i \in 1..Len(gc.participants) :
        /\ UserToString(gc.participants[i].user, populated) = userId
        /\ (rev = "part_005" => gc.participants[i].isActive)}

\* groupCallSchema.methods.addParticipant
addParticipant(gc, userId, populated) ==
    LET found == AddMatches(gc, userId, populated) IN
    IF found # {}
    THEN [gc EXCEPT !.participants[FirstIndex(found)].isActive = TRUE,
                    !.participants[FirstIndex(found)].leftAt = -1]
    ELSE [gc EXCEPT !.participants = Append(@, Participant(userId, "participant"))]

\* the entries removeParticipant's find() matches
RemoveMatches(gc, userId) ==
    {i \in 1..Len(gc.participants) :
        /\ gc.participants[i].user = userId
        /\ (rev = "part_005" => gc.participants[i].isActive)}

\* groupCallSchema.methods.removeParticipant
removeParticipant(gc, userId) ==
    LET found == RemoveMatches(gc, userId) IN
    IF found # {}
    THEN [gc EXCEPT !.participants[FirstIndex(found)].isActive = FALSE,
                    !.participants[FirstIndex(found)].leftAt = now]
    ELSE gc

\* groupCallSchema.methods.getActiveParticipants (as indexes, in roster order)
ActiveIndexes(gc) == {i \in 1..Len(gc.participants) : gc.participants[i].isActive}

getActiveParticipants(gc) ==
    SelectSeq(gc.participants, LAMBDA q : q.isActive)

\* groupCallSchema.methods.isUserInCall
isUserInCall(gc, userId) ==
    \E i \in 1..Len(gc.participants) :
        gc.participants[i].user = userId /\ gc.participants[i].isActive

\* groupCallSchema.methods.isUserHost: part_004 looks at the first entry of
\* the user, part_005 wants an active host entry of the user
\* a host test that looks at no role: any entry of the user passes
isUserHostAnyRole(gc, userId) ==
    \E i \in 1..Len(gc.participants) : gc.participants[i].user = userId

isUserHost(gc, userId) ==
    LET mine == {i \in 1..Len(gc.participants) : gc.participants[i].user = userId}
    IN  IF rev = "part_004"
        THEN mine # {} /\ gc.participants[FirstIndex(mine)].role = "host"
        ELSE \E i \in mine : /\ gc.participants[i].role = "host"
                              /\ gc.participants[i].isActive

\* Object.assign(participant, updates)
ObjectAssign(q, updates) ==
    [f \in DOMAIN q |-> IF f \in DOMAIN updates THEN updates[f] ELSE q[f]]

\* groupCallSchema.methods.updateParticipantStatus; part_005 throws when it
\* finds no entry (found = FALSE), part_004 saves the document as it is
updateParticipantStatus(gc, userId, updates) ==
    LET hit == RemoveMatches(gc, userId) IN
    IF hit # {}
    THEN [found |-> TRUE,
          doc |-> [gc EXCEPT !.participants[FirstIndex(hit)] =
                                ObjectAssign(@, updates)]]
    ELSE [found |-> rev = "part_004", doc |-> gc]

\* groupCallSchema.methods.endCall: every entry inactive; leftAt is stamped
\* where missing (part_004) or on the entries that were active (part_005)
groupEndCall(gc) ==
    LET closed(q) ==
            IF rev = "part_004"
            THEN [q EXCEPT !.isActive = FALSE,
                           !.leftAt = IF q.leftAt < 0 THEN now ELSE @]
            ELSE IF q.isActive
                 THEN [q EXCEPT !.isActive = FALSE, !.leftAt = now]
                 ELSE q
        ended == [gc EXCEPT !.status = "ended", !.endTime = now,
                            !.participants =
                                [i \in 1..Len(gc.participants) |->
                                    closed(gc.participants[i])]]
    IN  [ended EXCEPT !.duration = calculatedDuration(ended)]

\* GroupCall.findById(callId)
FindGroupCall(callId) ==
    IF callId = TheGroupCallId /\ groupCall.exists THEN groupCall ELSE NoGroupCall

\* the user ids of a sequence of participant entries
UserIds(entries) == [i \in 1..Len(entries) |-> entries[i].user]

Range(seq) == {seq[i] : i \in 1..Len(seq)}

ActiveUserSet(gc) == {gc.participants[i].user : i \in ActiveIndexes(gc)}

groupFrame == UNCHANGED <<activeUsers, sockets, now, call, rev, members, groupCalls, initiating, joining>>

RestGroupReject(u, op, text) ==
    /\ emitted' = <<>>
    /\ lastOp' = Op(op, "rest", u, NoSocket, TheGroupCallId, FALSE, text)
    /\ UNCHANGED <<groupCall, lastRoster>>

RestGroupDone(u, op) ==
    /\ emitted' = <<>>
    /\ lastOp' = Op(op, "rest", u, NoSocket, TheGroupCallId, TRUE, Null)
    /\ UNCHANGED lastRoster

(***************************************************************************)
(* Group calls: REST routes (routes/groupCalls.js).                        *)
(***************************************************************************)
\* POST /initiate: creates the GroupCall document, the initiator its host
RestGroupInitiate(u) ==
    /\ ~groupCall.exists
    /\ IF u \notin Members
       THEN RestGroupReject(u, "group-call-create", "You are not a member of this group")
       ELSE /\ groupCall' = createGroupCall(u)
            /\ RestGroupDone(u, "group-call-create")
    /\ groupFrame

\* an admission check that lets one participant too many in
CallIsFullAbove(gc) == Len(getActiveParticipants(gc)) > gc.maxParticipants

\* the admission check of POST /:callId/join
CallIsFull(gc) == Len(getActiveParticipants(gc)) >= gc.maxParticipants

\* POST /:callId/join: the document is loaded with participants.user populated
RestGroupJoin(u) ==
    /\ LET gc == FindGroupCall(TheGroupCallId) IN
       IF ~gc.exists
       THEN RestGroupReject(u, "group-call-join", "Group call not found")
       ELSE IF gc.status # "initiated" /\ gc.status # "active"
       THEN RestGroupReject(u, "group-call-join", "Call is no longer active")
       ELSE IF u \notin Members
       THEN RestGroupReject(u, "group-call-join", "You are not a member of this group")
       ELSE IF CallIsFull(gc)
       THEN RestGroupReject(u, "group-call-join", "Call is full")
       ELSE /\ groupCall' = [addParticipant(gc, u, TRUE) EXCEPT !.status = "active"]
            /\ RestGroupDone(u, "group-call-join")
    /\ groupFrame

\* POST /:callId/leave: the host is treated like any participant
RestGroupLeave(u) ==
    /\ LET gc == FindGroupCall(TheGroupCallId) IN
       IF ~gc.exists
       THEN RestGroupReject(u, "group-call-leave", "Group call not found")
       ELSE IF ~isUserInCall(gc, u)
       THEN RestGroupReject(u, "group-call-leave", "You are not in this call")
       ELSE LET left == removeParticipant(gc, u) IN
            /\ groupCall' = IF Len(getActiveParticipants(left)) = 0
                            THEN groupEndCall(left) ELSE left
            /\ RestGroupDone(u, "group-call-leave")
    /\ groupFrame

\* POST /:callId/end
RestGroupEnd(u) ==
    /\ LET gc == FindGroupCall(TheGroupCallId) IN
       IF ~gc.exists
       THEN RestGroupReject(u, "group-call-end", "Group call not found")
       ELSE IF ~isUserHost(gc, u)
       THEN RestGroupReject(u, "group-call-end", "Only the call host can end the call")
       ELSE /\ groupCall' = groupEndCall(gc)
            /\ RestGroupDone(u, "group-call-end")
    /\ groupFrame

\* the bodies PUT .../status is sent: nothing, mute with the camera off,
\* unmute with the camera on
StatusUpdates ==
    {<<>>,
     [isMuted |-> TRUE, isVideoEnabled |-> FALSE],
     [isMuted |-> FALSE, isVideoEnabled |-> TRUE]}

\* PUT /:callId/participant/:userId/status
RestUpdateStatus(u, target, updates) ==
    /\ LET gc == FindGroupCall(TheGroupCallId)
           op == "group-call-status"
           reject(text) ==
               /\ emitted' = <<>>
               /\ lastOp' = Op(op, "rest", u, NoSocket, target, FALSE, text)
               /\ UNCHANGED <<groupCall, lastRoster>>
       IN
       IF ~gc.exists
       THEN reject("Group call not found")
       ELSE IF ~isUserInCall(gc, u)
       THEN reject("You are not in this call")
       ELSE IF u # target /\ ~isUserHost(gc, u)
       THEN reject("You can only update your own status")
       ELSE LET done == updateParticipantStatus(gc, target, updates) IN
            IF ~done.found
            THEN reject("Failed to update participant status")
            ELSE /\ groupCall' = done.doc
                 /\ emitted' = <<>>
                 /\ lastOp' = Op(op, "rest", u, NoSocket, target, TRUE, Null)
                 /\ UNCHANGED lastRoster
    /\ groupFrame

(***************************************************************************)
(* POST /:callId/join as the two steps the event loop runs it in: the      *)
(* load with the admission checks, then the saves.  Other requests run     *)
(* between the two.                                                        *)
(***************************************************************************)
joinFrame == UNCHANGED <<activeUsers, sockets, now, call, rev, members, groupCalls, initiating, lastRoster>>

\* await GroupCall.findById(callId).populate(...) and the checks on the copy
JoinLoad(u) ==
    /\ ~joining[u].exists
    /\ LET gc == FindGroupCall(TheGroupCallId) IN
       IF ~gc.exists
       THEN RestGroupReject(u, "group-call-join", "Group call not found")
            /\ UNCHANGED joining
       ELSE IF gc.status # "initiated" /\ gc.status # "active"
       THEN RestGroupReject(u, "group-call-join", "Call is no longer active")
            /\ UNCHANGED joining
       ELSE IF u \notin Members
       THEN RestGroupReject(u, "group-call-join", "You are not a member of this group")
            /\ UNCHANGED joining
       ELSE IF CallIsFull(gc)
       THEN RestGroupReject(u, "group-call-join", "Call is full")
            /\ UNCHANGED joining
       ELSE /\ joining' = [joining EXCEPT ![u] = gc]
            /\ emitted' = <<>>
            /\ lastOp' = Op("group-call-join-admitted", "rest", u, NoSocket,
                            TheGroupCallId, TRUE, Null)
            /\ UNCHANGED <<groupCall, lastRoster>>
    /\ joinFrame

\* what the saves of the join write to the stored document: the entry that
\* addParticipant pushed on the loaded copy is appended to the stored
\* roster ($push), and status is set when the copy read "initiated"
SaveJoin(stored, loaded, u) ==
    LET mem == addParticipant(loaded, u, TRUE)
        pushed == Len(mem.participants) > Len(loaded.participants)
        roster == IF pushed
                  THEN Append(stored.participants,
                              mem.participants[Len(mem.participants)])
                  ELSE stored.participants
    IN  [stored EXCEPT !.participants = roster,
                       !.status = IF loaded.status = "initiated"
                                  THEN "active" ELSE @]

\* await groupCall.addParticipant(userId), the status save, the response
JoinSave(u) ==
    /\ joining[u].exists
    /\ groupCall' = SaveJoin(groupCall, joining[u], u)
    /\ joining' = [joining EXCEPT ![u] = NoGroupCall]
    /\ emitted' = <<>>
    /\ lastOp' = Op("group-call-join", "rest", u, NoSocket, TheGroupCallId,
                    TRUE, Null)
    /\ joinFrame

(***************************************************************************)
(* POST /initiate as the two steps the event loop runs it in: the checks   *)
(* up to GroupCall.findOne, then createGroupCall.  The documents of the    *)
(* group are kept in groupCalls.                                           *)
(***************************************************************************)
raceFrame ==
    UNCHANGED <<activeUsers, sockets, now, call, groupCall, rev, members,
                lastRoster, joining>>

\* GroupCall.findOne({group, status: {$in: ["initiated", "active"]}})
ExistingCalls(docs) ==
    {i \in 1..Len(docs) : docs[i].status \in {"initiated", "active"}}

raceOutcome(u, op, ok, text) ==
    /\ emitted' = <<>>
    /\ lastOp' = Op(op, "rest", u, NoSocket, TheGroupId, ok, text)

\* the membership check and the existing-call check of POST /initiate
InitiateCheck(u) ==
    /\ u \notin initiating
    /\ IF u \notin Members
       THEN /\ raceOutcome(u, "group-call-create", FALSE,
                           "You are not a member of this group")
            /\ UNCHANGED initiating
       ELSE IF ExistingCalls(groupCalls) # {}
       THEN /\ raceOutcome(u, "group-call-create", FALSE,
                           "There is already an active call for this group")
            /\ UNCHANGED initiating
       ELSE /\ raceOutcome(u, "group-call-create-admitted", TRUE, Null)
            /\ initiating' = initiating \cup {u}
    /\ UNCHANGED groupCalls
    /\ raceFrame

\* await GroupCall.createGroupCall(groupId, initiatorId, callType) and the
\* response; fresh: whether the generated roomName (time and a random
\* number) differs from every stored one, as the unique index demands
InitiateCreate(u, fresh) ==
    /\ u \in initiating
    /\ initiating' = initiating \ {u}
    /\ IF ~fresh /\ groupCalls # <<>>
       THEN /\ raceOutcome(u, "group-call-create", FALSE,
                           "Failed to initiate group call")
            /\ UNCHANGED groupCalls
       ELSE /\ raceOutcome(u, "group-call-create", TRUE, Null)
            /\ groupCalls' = Append(groupCalls, createGroupCall(u))
    /\ raceFrame

\* POST /:callId/end for the i-th document of the group
EndListedCall(u, i) ==
    /\ i \in 1..Len(groupCalls)
    /\ IF ~isUserHost(groupCalls[i], u)
       THEN /\ raceOutcome(u, "group-call-end", FALSE,
                           "Only the call host can end the call")
            /\ UNCHANGED groupCalls
       ELSE /\ raceOutcome(u, "group-call-end", TRUE, Null)
            /\ groupCalls' = [groupCalls EXCEPT ![i] = groupEndCall(@)]
    /\ UNCHANGED initiating
    /\ raceFrame

(***************************************************************************)
(* Group calls: socket handlers (server.js with the roster broadcast).     *)
(***************************************************************************)
\* one event per listed roster index whose user has a presence entry
RECURSIVE ToEntries(_, _, _, _, _)
ToEntries(gc, idx, ev, from, list) ==
    IF idx = <<>> THEN <<>>
    ELSE LET q == gc.participants[Head(idx)]
             rest == ToEntries(gc, Tail(idx), ev, from, list)
         IN  IF activeUsers[q.user] # NoSocket
             THEN <<Msg(ev, activeUsers[q.user], Null, from, list)>> \o rest
             ELSE rest

SocketGroupReject(s, op, text) ==
    /\ emitted' = <<Msg("group-call-error", s.id, text, Null, <<>>)>>
    /\ lastOp' = Op(op, "socket", s.userId, s.id, Null, FALSE, text)
    /\ UNCHANGED <<groupCall, lastRoster>>

\* the roster bookkeeping of one handler: the roster it sent last, if any
NoteRoster(events) ==
    LET sent == EventsNamed(events, "group-call-participants")
    IN  lastRoster' = IF sent = {} THEN lastRoster
                      ELSE events[FirstIndex(sent)].list

\* a payload that lists every entry, the inactive ones too
participantsPayloadAll(gc) == UserIds(gc.participants)

\* participantsPayload of group-call-join: the ids of the active entries
participantsPayload(gc) == UserIds(getActiveParticipants(gc))

\* socket.on("group-call-join"): relays only, the document is not changed
GroupCallJoin(s, callId) ==
    /\ s \in sockets
    /\ IF callId = Null
       THEN SocketGroupReject(s, "group-call-join", "Call ID and Group ID are required")
       ELSE LET gc == FindGroupCall(callId)
                others == SortedIds({i \in ActiveIndexes(gc) :
                                        gc.participants[i].user # s.userId})
                active == SortedIds(ActiveIndexes(gc))
                payload == participantsPayload(gc)
                events ==
                    ToEntries(gc, others, "group-call-participant-joined",
                              s.userId, <<>>)
                    \o ToEntries(gc, active, "group-call-participants", Null, payload)
                    \o <<Msg("group-call-joined", s.id, Null, s.userId, payload)>>
            IN  /\ emitted' = events
                /\ NoteRoster(events)
                /\ lastOp' = Op("group-call-join", "socket", s.userId, s.id, callId,
                                TRUE, Null)
                /\ UNCHANGED groupCall
    /\ groupFrame

\* socket.on("group-call-leave"): the initiator leaving ends the call and
\* then notifies the entries still active; anyone else leaving is relayed
GroupCallLeaveWith(s, callId, saved) ==
    /\ s \in sockets
    /\ IF callId = Null
       THEN SocketGroupReject(s, "group-call-leave", "Call ID and Group ID are required")
       ELSE LET gc == FindGroupCall(callId)
                left == <<Msg("group-call-left", s.id, Null, s.userId, <<>>)>>
            IN
            IF gc.exists /\ gc.initiator = s.userId /\ SaveAborts(saved)
            THEN SocketGroupReject(s, "group-call-leave", "Failed to leave group call")
            ELSE IF gc.exists /\ gc.initiator = s.userId
            THEN LET ended == groupEndCall(gc)
                     events ==
                        ToEntries(ended, SortedIds(ActiveIndexes(ended)),
                                  "group-call-ended", s.userId, <<>>) \o left
                 IN  /\ groupCall' = ended
                     /\ emitted' = events
                     /\ NoteRoster(events)
                     /\ lastOp' = Op("group-call-leave", "socket", s.userId, s.id,
                                     callId, TRUE, Null)
            ELSE LET others == SortedIds({i \in ActiveIndexes(gc) :
                                            gc.participants[i].user # s.userId})
                     payload == [k \in 1..Len(others) |-> gc.participants[others[k]].user]
                     events ==
                        ToEntries(gc, others, "group-call-participant-left",
                                  s.userId, <<>>)
                        \o ToEntries(gc, others, "group-call-participants", Null, payload)
                        \o left
                 IN  /\ emitted' = events
                     /\ NoteRoster(events)
                     /\ lastOp' = Op("group-call-leave", "socket", s.userId, s.id,
                                     callId, TRUE, Null)
                     /\ UNCHANGED groupCall
    /\ groupFrame

GroupCallLeave(s, callId) == GroupCallLeaveWith(s, callId, TRUE)

\* socket.on("group-call-end"): relays only; no check of the sender, no
\* change of the document, no answer to the sender
GroupCallEnd(s, callId) ==
    /\ s \in sockets
    /\ IF callId = Null
       THEN SocketGroupReject(s, "group-call-end", "Call ID and Group ID are required")
       ELSE LET gc == FindGroupCall(callId) IN
            /\ emitted' = ToEntries(gc, SortedIds(ActiveIndexes(gc)),
                                    "group-call-ended", s.userId, <<>>)
            /\ lastOp' = Op("group-call-end", "socket", s.userId, s.id, callId,
                            TRUE, Null)
            /\ UNCHANGED <<groupCall, lastRoster>>
    /\ groupFrame

\* Group.findById(groupId).populate("members.user"): the member ids in the
\* order of group.members; no document for any other id
RECURSIVE UsersInOrder(_)
UsersInOrder(S) ==
    IF S = {} THEN <<>>
    ELSE LET m == CHOOSE x \in S : \A y \in S : UserIndex(x) <= UserIndex(y)
         IN <<m>> \o UsersInOrder(S \ {m})

GroupMembers(groupId) == IF groupId = TheGroupId THEN UsersInOrder(members) ELSE <<>>

\* group.members.forEach: one event to the presence entry of every listed
\* member but the sender
RECURSIVE ToMembers(_, _, _)
ToMembers(list, ev, from) ==
    IF list = <<>> THEN <<>>
    ELSE LET rest == ToMembers(Tail(list), ev, from) IN
         IF activeUsers[Head(list)] # NoSocket /\ Head(list) # from
         THEN <<Msg(ev, activeUsers[Head(list)], Null, from, <<>>)>> \o rest
         ELSE rest

\* socket.on("group-call-initiate"): confirms to the sender, then notifies
\* the members of the group; no document is read or written
GroupCallInitiate(s, groupId) ==
    /\ s \in sockets
    /\ IF groupId = Null
       THEN SocketGroupReject(s, "group-call-initiate", "Group ID is required")
       ELSE /\ emitted' = <<Msg("group-call-initiated", s.id, Null, s.userId, <<>>)>>
                          \o ToMembers(GroupMembers(groupId), "incoming-group-call",
                                       s.userId)
            /\ lastOp' = Op("group-call-initiate", "socket", s.userId, s.id,
                            groupId, TRUE, Null)
            /\ UNCHANGED <<groupCall, lastRoster>>
    /\ groupFrame

\* what a client may send as targetUserId: a user or nothing
TargetInputs == Users \cup {Null}

\* activeUsers.get(targetUserId) and the emit to its socketId
ToTarget(target, ev, from) ==
    IF target \in Users THEN ToUser(target, ev, from) ELSE <<>>

\* the group negotiation handlers read and write no document
relayDone(s, op, target, events) ==
    /\ emitted' = events
    /\ lastOp' = Op(op, "socket", s.userId, s.id, target, TRUE, Null)
    /\ UNCHANGED <<groupCall, lastRoster>>

\* socket.on("group-call-offer"): point to point, the target is required
GroupCallOffer(s, callId, groupId, target, offer) ==
    /\ s \in sockets
    /\ IF callId = Null \/ groupId = Null \/ target = Null \/ offer = Null
       THEN SocketGroupReject(s, "group-call-offer",
                "Call ID, Group ID, target user ID, and offer are required")
       ELSE relayDone(s, "group-call-offer", target,
                      ToTarget(target, "group-call-offer", s.userId))
    /\ groupFrame

\* socket.on("group-call-answer"): point to point, the target is required
GroupCallAnswer(s, callId, groupId, target, answer) ==
    /\ s \in sockets
    /\ IF callId = Null \/ groupId = Null \/ target = Null \/ answer = Null
       THEN SocketGroupReject(s, "group-call-answer",
                "Call ID, Group ID, target user ID, and answer are required")
       ELSE relayDone(s, "group-call-answer", target,
                      ToTarget(target, "group-call-answer", s.userId))
    /\ groupFrame

\* socket.on("group-call-ice-candidate") of server.js: the target is required
GroupCallIceCandidate_server(s, callId, groupId, target, candidate) ==
    /\ s \in sockets
    /\ IF callId = Null \/ groupId = Null \/ target = Null \/ candidate = Null
       THEN SocketGroupReject(s, "group-call-ice-candidate",
                "Call ID, Group ID, target user ID, and candidate are required")
       ELSE relayDone(s, "group-call-ice-candidate", target,
                      ToTarget(target, "group-call-ice-candidate", s.userId))
    /\ groupFrame

\* socket.on("group-call-ice-candidate") of the server revision part_013:
\* with a target point to point, without one to the members of the group
GroupCallIceCandidate_part013(s, callId, groupId, target, candidate) ==
    /\ s \in sockets
    /\ IF callId = Null \/ groupId = Null \/ candidate = Null
       THEN SocketGroupReject(s, "group-call-ice-candidate",
                "Call ID, Group ID, and candidate are required")
       ELSE IF target # Null
       THEN relayDone(s, "group-call-ice-candidate", target,
                      ToTarget(target, "group-call-ice-candidate", s.userId))
       ELSE relayDone(s, "group-call-ice-candidate", target,
                      ToMembers(GroupMembers(groupId), "group-call-ice-candidate",
                                s.userId))
    /\ groupFrame

(***************************************************************************)
(* Specification of the 1:1 call controller with the gateway.              *)
(***************************************************************************)
InitCall == Init /\ rev = "part_004"

\* the call-initiate relay with the gateway (the relay never reads the Call);
\* a user may hold several connections, the older ones stale
NextInitiate ==
    \/ \E u \in Users : OpenCount(u) < MaxConns /\ Connect(u)
    \/ \E s \in sockets : Disconnect(s)
    \/ \E s \in sockets, r \in Users \cup {Null, GhostId, BadId} : CallInitiate(s, r)

SpecInitiate == InitCall /\ [][NextInitiate]_vars

\* no user holds more than n connections
ConnsWithin(n) ==
    \A u \in Users : Cardinality({s \in sockets' : s.userId = u}) <= n

\* the gateway: handshakes, disconnects, and the two kinds of relay
NextPresence ==
    \/ \E t \in Tokens : Handshake(t) /\ ConnsWithin(MaxConns)
    \/ \E s \in sockets : Disconnect(s)
    \/ \E s \in sockets, r \in Users : CallInitiate(s, r)
    \/ \E s \in sockets, r \in Users : SendMessage(s, r)

SpecPresence == InitCall /\ [][NextPresence]_vars

\* a Call document collects at most n ICE candidates
CandidatesWithin(n) == Len(call'.iceCandidates) <= n

\* the WebRTC negotiation relay of a 1:1 call, with the gateway; the saves
\* of the handlers succeed or fail
NextRelay ==
    \/ \E u \in Users : OpenCount(u) = 0 /\ Connect(u)
    \/ \E s \in sockets : Disconnect(s)
    \/ \E u \in Callers : \E r \in Receivers : RestCallInitiate(u, r)
    \/ \E s \in sockets, c \in CallIdInputs, o \in SdpInputs, ok \in BOOLEAN :
           CallOffer(s, c, o, ok)
    \/ \E s \in sockets, c \in CallIdInputs, a \in SdpInputs, ok \in BOOLEAN :
           CallAnswerWebrtc(s, c, a, ok)
    \/ \E s \in sockets, c \in CallIdInputs, k \in CandidateInputs, ok \in BOOLEAN :
           IceCandidate(s, c, k, ok) /\ CandidatesWithin(MaxCandidates)

SpecRelay == InitCall /\ [][NextRelay]_vars

\* the lifecycle of the Call document, over both paths, with the gateway;
\* here a user connects only while holding no connection
NextCall ==
    \/ \E u \in Users : OpenCount(u) = 0 /\ Connect(u)
    \/ \E s \in sockets : Disconnect(s)
    \/ Tick
    \/ \E u \in Callers : \E r \in Receivers \cup {u, GhostId} : RestCallInitiate(u, r)
    \/ \E u \in Users, c \in {TheCallId, OtherCallId}, a \in SdpInputs :
           RestCallAnswer(u, c, a)
    \/ \E u \in Users, c \in {TheCallId, OtherCallId} : RestCallDecline(u, c)
    \/ \E u \in Users, c \in {TheCallId, OtherCallId} : RestCallEnd(u, c)
    \/ \E s \in sockets, c \in CallIdInputs, a \in SdpInputs : CallAnswer(s, c, a)
    \/ \E s \in sockets, c \in {TheCallId, OtherCallId} : CallDecline(s, c)
    \/ \E s \in sockets, c \in {TheCallId, OtherCallId} : CallEnd(s, c)

SpecCall == InitCall /\ [][NextCall]_vars

\* a GroupCall document collects at most n participant entries
RosterWithin(n) == Len(groupCall'.participants) <= n

\* the GroupCall roster under the REST routes alone
NextRoster ==
    \/ Tick
    \/ \E u \in Hosts : RestGroupInitiate(u)
    \/ \E u \in Users : RestGroupJoin(u) /\ RosterWithin(MaxRoster)
    \/ \E u \in Users : RestGroupLeave(u)

SpecRoster == Init /\ [][NextRoster]_vars

\* the roster with the host's and the participants' management requests
NextManage ==
    \/ \E u \in Hosts : RestGroupInitiate(u)
    \/ \E u \in Users : RestGroupJoin(u) /\ RosterWithin(MaxRelayRoster)
    \/ \E u \in Users : RestGroupLeave(u)
    \/ \E u \in Users : RestGroupEnd(u)
    \/ \E u \in Users, t \in Users \cup {GhostId}, v \in StatusUpdates :
           RestUpdateStatus(u, t, v)

SpecManage == Init /\ [][NextManage]_vars

\* the explicit end of a group call over both paths, with the gateway
NextEnd ==
    \/ \E u \in Users : OpenCount(u) = 0 /\ Connect(u)
    \/ \E s \in sockets : Disconnect(s)
    \/ \E u \in Hosts : RestGroupInitiate(u)
    \/ \E u \in Users : RestGroupJoin(u) /\ RosterWithin(MaxRelayRoster)
    \/ \E u \in Users : RestGroupEnd(u)
    \/ \E s \in sockets, c \in {TheGroupCallId, Null} : GroupCallEnd(s, c)

SpecEnd == Init /\ [][NextEnd]_vars

\* the status transitions of both kinds of call over the socket handlers,
\* with the gateway; the save of a transition succeeds or fails
NextFault ==
    \/ \E u \in Users : OpenCount(u) = 0 /\ Connect(u)
    \/ \E s \in sockets : Disconnect(s)
    \/ \E u \in Callers : \E r \in Receivers : RestCallInitiate(u, r)
    \/ \E s \in sockets, a \in SdpInputs, ok \in BOOLEAN :
           CallAnswerWith(s, TheCallId, a, ok)
    \/ \E s \in sockets, ok \in BOOLEAN : CallDeclineWith(s, TheCallId, ok)
    \/ \E s \in sockets, ok \in BOOLEAN : CallEndWith(s, TheCallId, ok)
    \/ \E u \in Hosts : RestGroupInitiate(u)
    \/ \E u \in Users \ Hosts : RestGroupJoin(u) /\ RosterWithin(MaxFaultRoster)
    \/ \E s \in sockets, ok \in BOOLEAN :
           GroupCallLeaveWith(s, TheGroupCallId, ok)

SpecFault == InitCall /\ [][NextFault]_vars

\* a group that user u3 is not a member of
InitOutsider == InitWith(Users \ {"u3"})

\* admission to the group's calls over both paths, with the gateway; a
\* user connects only while holding no connection
NextMember ==
    \/ \E u \in Users : OpenCount(u) = 0 /\ Connect(u)
    \/ \E s \in sockets : Disconnect(s)
    \/ \E u \in Users : RestGroupInitiate(u)
    \/ \E u \in Users : RestGroupJoin(u) /\ RosterWithin(MaxRelayRoster)
    \/ \E u \in Users : RestGroupEnd(u)
    \/ \E s \in sockets, g \in GroupIdInputs : GroupCallInitiate(s, g)
    \/ \E s \in sockets, c \in {TheGroupCallId, Null} : GroupCallJoin(s, c)

SpecMember == InitOutsider /\ [][NextMember]_vars

\* the negotiation relay of group calls, with the gateway (a user connects
\* only while holding no connection); both revisions of the ICE handler
\* are followed
NextGroupRelay ==
    \/ \E u \in Users : OpenCount(u) = 0 /\ Connect(u)
    \/ \E s \in sockets : Disconnect(s)
    \/ \E s \in sockets, g \in GroupIdInputs, t \in TargetInputs, o \in SdpInputs :
           GroupCallOffer(s, TheGroupCallId, g, t, o)
    \/ \E s \in sockets, g \in GroupIdInputs, t \in TargetInputs, a \in SdpInputs :
           GroupCallAnswer(s, TheGroupCallId, g, t, a)
    \/ \E s \in sockets, g \in GroupIdInputs, t \in TargetInputs,
          k \in CandidateInputs :
           GroupCallIceCandidate_server(s, TheGroupCallId, g, t, k)
    \/ \E s \in sockets, g \in GroupIdInputs, t \in TargetInputs,
          k \in CandidateInputs :
           GroupCallIceCandidate_part013(s, TheGroupCallId, g, t, k)

SpecGroupRelay == InitOutsider /\ [][NextGroupRelay]_vars

\* the group collects at most n GroupCall documents
CallsWithin(n) == Len(groupCalls') <= n

\* POST /initiate with the requests of the members interleaved
NextInitiateRace ==
    \/ Tick
    \/ \E u \in Users : InitiateCheck(u)
    \/ \E u \in Users, fresh \in BOOLEAN :
           InitiateCreate(u, fresh) /\ CallsWithin(MaxCalls)
    \/ \E u \in Users, i \in 1..MaxCalls : EndListedCall(u, i)

SpecInitiateRace == InitOutsider /\ [][NextInitiateRace]_vars

\* the REST routes with the join requests interleaved
NextJoinRace ==
    \/ \E u \in Hosts : RestGroupInitiate(u)
    \/ \E u \in Users : JoinLoad(u)
    \/ \E u \in Users : JoinSave(u) /\ RosterWithin(MaxRoster)
    \/ \E u \in Users : RestGroupLeave(u)

SpecJoinRace == Init /\ [][NextJoinRace]_vars

\* the group call controller over both paths, with the gateway; a user
\* connects only while holding no connection
NextGroup ==
    \/ \E u \in Users : OpenCount(u) = 0 /\ Connect(u)
    \/ \E s \in sockets : Disconnect(s)
    \/ \E u \in Hosts : RestGroupInitiate(u)
    \/ \E u \in Users : RestGroupJoin(u) /\ RosterWithin(MaxRelayRoster)
    \/ \E u \in Users : RestGroupLeave(u)
    \/ \E s \in sockets, c \in {TheGroupCallId, Null} : GroupCallJoin(s, c)
    \/ \E s \in sockets, c \in {TheGroupCallId, Null} : GroupCallLeave(s, c)

SpecGroup == Init /\ [][NextGroup]_vars

(***************************************************************************)
(* Properties of the 1:1 call controller (SpecInitiate, SpecCall).         *)
(***************************************************************************)
\* the step is user u answering the call, over either path
AnswerStep(u) ==
    \E a \in SdpInputs :
        \/ \E s \in sockets : s.userId = u /\ CallAnswer(s, TheCallId, a)
        \/ RestCallAnswer(u, TheCallId, a)

\* the step is user u ending the call, over either path
EndStep(u) ==
    \/ \E s \in sockets : s.userId = u /\ CallEnd(s, TheCallId)
    \/ RestCallEnd(u, TheCallId)

\* C1: an answer (socket or REST) succeeds exactly when the actor is the
\* call's receiver and the status is initiated or ringing; in every other
\* case it fails with an error and leaves the status as it was.
C1_AnswerOnlyByReceiverWhileRinging ==
    [][\A u \in Users :
        (call.exists /\ AnswerStep(u)) =>
            IF u = call.receiver /\ call.status \in {"initiated", "ringing"}
            THEN lastOp'.ok /\ call'.status = "answered"
            ELSE ~lastOp'.ok /\ call'.status = call.status]_vars

\* C2: a call-initiate whose receiver has a presence entry emits exactly one
\* incoming-call, addressed to the receiver's registered connection, and
\* exactly one call-initiated, addressed to the calling connection.
C2_InitiateReachesReceiverAndCaller ==
    (/\ lastOp.op = "call-initiate"
     /\ lastOp.target \in Users
     /\ activeUsers[lastOp.target] # NoSocket) =>
        /\ Cardinality(EventsNamed(emitted, "incoming-call")) = 1
        /\ \A i \in EventsNamed(emitted, "incoming-call") :
              /\ emitted[i].to = activeUsers[lastOp.target]
              /\ emitted[i].user = lastOp.user
        /\ Cardinality(EventsNamed(emitted, "call-initiated")) = 1
        /\ \A i \in EventsNamed(emitted, "call-initiated") :
              emitted[i].to = lastOp.socket

\* a caller has just reached a receiver who holds a stale connection beside
\* the registered one
C2_ReceiverWithTwoConnectionsRung ==
    /\ lastOp.op = "call-initiate"
    /\ lastOp.ok
    /\ lastOp.target \in Users \ {lastOp.user}
    /\ OpenCount(lastOp.target) > 1
    /\ \E i \in EventsNamed(emitted, "incoming-call") :
          emitted[i].to = activeUsers[lastOp.target]

\* C3: a call-initiate whose receiver has no presence entry sends the caller
\* an error naming the receiver, sends no call-initiated confirmation, and
\* delivers no incoming-call.
C3_UnreachableReceiverOnlyError ==
    (/\ lastOp.op = "call-initiate"
     /\ lastOp.target \in Users
     /\ activeUsers[lastOp.target] = NoSocket) =>
        /\ \E i \in EventsNamed(emitted, "call-error") :
              /\ emitted[i].to = lastOp.socket
              /\ emitted[i].user = lastOp.target
        /\ EventsNamed(emitted, "call-initiated") = {}
        /\ EventsNamed(emitted, "incoming-call") = {}

\* C4: an end (socket or REST) of a call whose status is already ended leaves
\* endTime and duration as they were.
C4_EndOfEndedCallKeepsTimes ==
    [][\A u \in Users :
        (call.exists /\ call.status = "ended" /\ EndStep(u)) =>
            /\ call'.endTime = call.endTime
            /\ call'.duration = call.duration]_vars

\* C5: once the status is ended or declined no step changes it.
C5_EndedAndDeclinedAreTerminal ==
    [][(call.exists /\ call.status \in {"ended", "declined"}) =>
            call'.status = call.status]_vars

(***************************************************************************)
(* Properties of the gateway (SpecPresence).                               *)
(***************************************************************************)
\* C12: the disconnect of a connection that is not the one registered for
\* its user leaves that user's presence entry as it was.
C12_StaleDisconnectKeepsEntry ==
    [][\A s \in sockets :
        (activeUsers[s.userId] # s.id /\ Disconnect(s)) =>
            activeUsers'[s.userId] = activeUsers[s.userId]]_vars

\* C13 as stated: every event a relay sends to somebody other than its
\* sender goes to the connection registered for the addressed user.
C13_EveryRelayToRegisteredOnly ==
    lastOp.op \in {"call-initiate", "send-message"} =>
        \A i \in DOMAIN emitted :
            emitted[i].to # lastOp.socket =>
                emitted[i].to = activeUsers[lastOp.target]

\* C13: a connection replaces its user's presence entry (the entry is the
\* socket connected last), and every event the call relay sends to
\* somebody other than its sender goes to the connection registered for
\* the addressed user, never to another connection of that user.
C13_LastWriterWinsForCallRelay ==
    /\ (lastOp.op = "connection" /\ lastOp.ok) =>
            activeUsers[lastOp.user] = lastOp.socket
    /\ lastOp.op = "call-initiate" =>
            \A i \in DOMAIN emitted :
                emitted[i].to # lastOp.socket =>
                    emitted[i].to = activeUsers[lastOp.target]

\* a user holding a connection has connected again and the entry now
\* names the new connection
C13_ReconnectReplacedEntry ==
    /\ lastOp.op = "connection"
    /\ lastOp.ok
    /\ OpenCount(lastOp.user) > 1
    /\ activeUsers[lastOp.user] = lastOp.socket

\* C14: a connection attempt whose token is missing, not validly signed or
\* names no existing user ends in an authentication error and changes
\* neither the presence map nor the open connections, and emits nothing.
C14_FailedHandshakeLeavesNoTrace ==
    [][\A t \in Tokens :
        ((~t.present \/ ~t.signed \/ t.userId \notin Users) /\ Handshake(t)) =>
            /\ ~lastOp'.ok
            /\ lastOp'.error # Null
            /\ activeUsers' = activeUsers
            /\ sockets' = sockets
            /\ emitted' = <<>>]_vars

\* with somebody online, a validly signed token of a deleted user has
\* just been turned away
C14_DeletedUserTurnedAway ==
    /\ lastOp.op = "connection"
    /\ ~lastOp.ok
    /\ lastOp.error = "Authentication error: User not found"
    /\ sockets # {}
    /\ emitted = <<>>

\* the step is user u sending a negotiation payload for the call
RelayStep(u) ==
    \E s \in sockets, ok \in BOOLEAN :
        /\ s.userId = u
        /\ \/ CallOffer(s, TheCallId, "sdp", ok)
           \/ CallAnswerWebrtc(s, TheCallId, "sdp", ok)
           \/ IceCandidate(s, TheCallId, "cand", ok)

\* the negotiation events among a sequence of emitted events
RelayEvents(seq) ==
    EventsNamed(seq, "call-offer") \cup EventsNamed(seq, "call-answer-webrtc")
        \cup EventsNamed(seq, "ice-candidate")

\* C23: the negotiation relays (call-offer, call-answer-webrtc,
\* ice-candidate) are gated by caller/receiver authorization: an event sent
\* for a call by a user who is neither its caller nor its receiver is
\* rejected, is relayed to nobody and leaves the Call document unchanged.
C23_RelayOnlyByParties ==
    [][\A u \in Users :
         (/\ call.exists
          /\ u # call.caller
          /\ u # call.receiver
          /\ RelayStep(u)) =>
             /\ ~lastOp'.ok
             /\ RelayEvents(emitted') = {}
             /\ call' = call]_vars

\* C24: when the save of the candidate fails in an ice-candidate event on
\* an existing call, the relay is not aborted: the candidate is delivered
\* to the other party's connection whenever that party has a presence
\* entry, and no error is reported to the sender.
C24_FailedCandidateSaveStillRelays ==
    [][\A s \in sockets :
         (call.exists /\ IceCandidate(s, TheCallId, "cand", FALSE)) =>
             LET other == OtherParty(call, s.userId) IN
             /\ lastOp'.ok
             /\ EventsNamed(emitted', "call-error") = {}
             /\ (activeUsers[other] # NoSocket) =>
                    \E i \in EventsNamed(emitted', "ice-candidate") :
                        emitted'[i].to = activeUsers[other]
             /\ call'.iceCandidates = call.iceCandidates]_vars

\* a candidate went out to the other party although no candidate was ever
\* stored with the call
C24_RelayedButNotStored ==
    /\ call.exists
    /\ lastOp.op = "ice-candidate"
    /\ lastOp.ok
    /\ lastOp.user = call.caller
    /\ call.iceCandidates = <<>>
    /\ \E i \in EventsNamed(emitted, "ice-candidate") :
           emitted[i].to = activeUsers[call.receiver]

\* the events of name ev sent to the connection of id among a sequence
SentTo(seq, ev, id) == {i \in EventsNamed(seq, ev) : seq[i].to = id}

\* C25: when the save of a status transition fails (in call-answer,
\* call-decline, call-end, or the endCall of the host's leave), the
\* operation is aborted: no call-answered / call-declined / call-ended /
\* group-call-ended event goes out, the document stays as it was, and the
\* acting connection receives an error event.
C25_FailedTransitionAborts ==
    [][\A s \in sockets :
         /\ (\/ \E a \in SdpInputs : CallAnswerWith(s, TheCallId, a, FALSE)
             \/ CallDeclineWith(s, TheCallId, FALSE)
             \/ CallEndWith(s, TheCallId, FALSE)) =>
                /\ EventsNamed(emitted', "call-answered") = {}
                /\ EventsNamed(emitted', "call-declined") = {}
                /\ EventsNamed(emitted', "call-ended") = {}
                /\ SentTo(emitted', "call-error", s.id) # {}
                /\ ~lastOp'.ok
                /\ call' = call
         /\ (/\ groupCall.exists
             /\ s.userId = groupCall.initiator
             /\ GroupCallLeaveWith(s, TheGroupCallId, FALSE)) =>
                /\ EventsNamed(emitted', "group-call-ended") = {}
                /\ SentTo(emitted', "group-call-error", s.id) # {}
                /\ ~lastOp'.ok
                /\ groupCall' = groupCall]_vars

\* the end of an answered call failed at its save while the other party
\* was connected: the call is still answered
C25_EndFailedAtSave ==
    /\ call.exists
    /\ call.status = "answered"
    /\ lastOp.op = "call-end"
    /\ lastOp.error = "Failed to end call"
    /\ activeUsers[OtherParty(call, lastOp.user)] # NoSocket
    /\ SentTo(emitted, "call-error", lastOp.socket) # {}

\* C26: a call-answer by the receiver persists status answered and the
\* SDP answer whether or not the caller is connected, and relays
\* call-answered to the caller's registered connection if and only if the
\* caller has a presence entry at that moment; with the caller absent the
\* answerer gets no error.
C26_AnswerPersistsRelayIfPresent ==
    [][\A s \in sockets, a \in SdpInputs :
         (/\ call.exists
          /\ s.userId = call.receiver
          /\ CallAnswer(s, TheCallId, a)) =>
             /\ lastOp'.ok
             /\ call'.status = "answered"
             /\ (a # Null) => call'.answer = JSONStringify(a)
             /\ EventsNamed(emitted', "call-error") = {}
             /\ (activeUsers[call.caller] # NoSocket) <=>
                    (EventsNamed(emitted', "call-answered") # {})
             /\ \A i \in EventsNamed(emitted', "call-answered") :
                    emitted'[i].to = activeUsers[call.caller]]_vars

\* the receiver answered with an SDP answer while the caller had no
\* presence entry: the answer is stored and nothing was sent
C26_AnsweredWithCallerAway ==
    /\ call.exists
    /\ call.status = "answered"
    /\ call.answer = JSONStringify("sdp")
    /\ lastOp.op = "call-answer"
    /\ lastOp.via = "socket"
    /\ lastOp.ok
    /\ activeUsers[call.caller] = NoSocket
    /\ emitted = <<>>

\* C29: a bare socket disconnect changes only presence: every Call and
\* GroupCall record stays as it was (status, participants, endTime), also
\* when the user is a call's host or its last active participant.
C29_DisconnectTouchesNoCall ==
    [][\A s \in sockets :
         Disconnect(s) => call' = call /\ groupCall' = groupCall]_vars

\* the host, the only active participant of a running group call and a
\* party of an answered call, has just disconnected
C29_LoneHostDisconnected ==
    /\ lastOp.op = "disconnect"
    /\ groupCall.exists
    /\ groupCall.status \in {"initiated", "active"}
    /\ lastOp.user = groupCall.initiator
    /\ ActiveUserSet(groupCall) = {lastOp.user}
    /\ call.exists
    /\ call.status = "answered"
    /\ lastOp.user = call.caller
    /\ activeUsers[lastOp.user] = NoSocket

(***************************************************************************)
(* Properties of the group call controller (SpecRoster, SpecGroup).        *)
(***************************************************************************)
\* the step is user u leaving the group call, over either path
LeaveStep(u) ==
    \/ \E s \in sockets : s.userId = u /\ GroupCallLeave(s, TheGroupCallId)
    \/ RestGroupLeave(u)

\* the roster events among the emitted ones
RosterEvents == EventsNamed(emitted, "group-call-participants")

\* C11: the number of active participant entries never exceeds
\* maxParticipants, also when join requests interleave between their read
\* and their write.
C11_ActiveWithinCapacity ==
    groupCall.exists =>
        Len(getActiveParticipants(groupCall)) <= groupCall.maxParticipants

\* C15: leaving is idempotent: a leave by a user who has no active entry
\* in the call completes as a success and leaves the roster and the status
\* of the call as they were.
C15_LeaveByNonParticipantIsNoOpSuccess ==
    [][\A u \in Users :
         (/\ groupCall.exists
          /\ ~isUserInCall(groupCall, u)
          /\ LeaveStep(u)) =>
             /\ lastOp'.ok
             /\ groupCall'.participants = groupCall.participants
             /\ groupCall'.status = groupCall.status]_vars

\* the step is user u asking to end the group call, over either path
GroupEndStep(u) ==
    \/ \E s \in sockets : s.userId = u /\ GroupCallEnd(s, TheGroupCallId)
    \/ RestGroupEnd(u)

\* C16: an explicit end is authorized only for the host or a group admin:
\* an end request of any other user is rejected, changes nothing of the
\* call and sends no group-call-ended event.
C16_EndOnlyByHostOrAdmin ==
    [][\A u \in Users :
         (/\ groupCall.exists
          /\ u # groupCall.initiator
          /\ u \notin GroupAdmins
          /\ GroupEndStep(u)) =>
             /\ ~lastOp'.ok
             /\ groupCall' = groupCall
             /\ EventsNamed(emitted', "group-call-ended") = {}]_vars

\* C17: an authorized explicit end marks every participant inactive and
\* sets the status ended; whenever group-call-ended has been sent to
\* participants of the call, the persisted status of the call is ended.
\* Stated for the host's own end request, over either path, just completed.
C17_HostEndPersistsEnded ==
    (/\ groupCall.exists
     /\ lastOp.op = "group-call-end"
     /\ lastOp.target = TheGroupCallId
     /\ lastOp.user = groupCall.initiator
     /\ lastOp.ok
     /\ EventsNamed(emitted, "group-call-ended") # {}) =>
        /\ groupCall.status = "ended"
        /\ ActiveIndexes(groupCall) = {}

\* the isMuted / isVideoEnabled flags of the participant entries, in order
MediaFlags(gc) ==
    [i \in 1..Len(gc.participants) |->
        <<gc.participants[i].isMuted, gc.participants[i].isVideoEnabled>>]

\* C18: a status update changes isMuted / isVideoEnabled only when the
\* actor is the participant concerned or the call's host: the request of
\* any other actor fails as not authorized and changes no entry, and a
\* request that is carried out changes entries of the target user only.
C18_StatusUpdateBySelfOrHostOnly ==
    [][\A u \in Users, t \in Users \cup {GhostId}, v \in StatusUpdates :
         (groupCall.exists /\ RestUpdateStatus(u, t, v)) =>
             /\ (u # t /\ u # groupCall.initiator) =>
                    /\ ~lastOp'.ok
                    /\ lastOp'.error \in {"You are not in this call",
                                          "You can only update your own status"}
                    /\ groupCall' = groupCall
             /\ Len(groupCall'.participants) = Len(groupCall.participants)
             /\ \A i \in 1..Len(groupCall.participants) :
                    \/ groupCall'.participants[i] = groupCall.participants[i]
                    \/ /\ groupCall.participants[i].user = t
                       /\ (u = t \/ u = groupCall.initiator)]_vars

\* a participant asked to change another participant's flags and was
\* refused, the flags of the roster being what they were
C18_OtherParticipantRefused ==
    /\ groupCall.exists
    /\ lastOp.op = "group-call-status"
    /\ ~lastOp.ok
    /\ lastOp.error = "You can only update your own status"
    /\ lastOp.user # lastOp.target
    /\ isUserInCall(groupCall, lastOp.user)
    /\ isUserInCall(groupCall, lastOp.target)
    /\ \E i \in 1..Len(groupCall.participants) :
           /\ groupCall.participants[i].user = lastOp.user
           /\ groupCall.participants[i].isMuted

\* the participant entries carrying the host role
HostIndexes(gc) ==
    {i \in 1..Len(gc.participants) : gc.participants[i].role = "host"}

\* C19: in every state of a group call exactly one participant entry has
\* the role host, and it is the entry of the call's initiator; joins,
\* leaves, rejoins, status updates and the end of the call leave it so.
C19_ExactlyOneHostTheInitiator ==
    groupCall.exists =>
        /\ Cardinality(HostIndexes(groupCall)) = 1
        /\ \A i \in HostIndexes(groupCall) :
               groupCall.participants[i].user = groupCall.initiator

\* an ended call that another member joined, left and joined again and in
\* which a status update was carried out
C19_EndedAfterRejoinAndUpdate ==
    /\ groupCall.exists
    /\ groupCall.status = "ended"
    /\ \E i, j \in 1..Len(groupCall.participants) :
           /\ i < j
           /\ groupCall.participants[i].user = groupCall.participants[j].user
           /\ groupCall.participants[i].user # groupCall.initiator
    /\ \E i \in 1..Len(groupCall.participants) : groupCall.participants[i].isMuted

\* C20: the status stays initiated until a second distinct participant, a
\* user other than the initiator, joins: an active call has an entry of a
\* user who is not its initiator.
C20_ActiveOnlyAfterSecondParticipant ==
    (groupCall.exists /\ groupCall.status = "active") =>
        \E i \in 1..Len(groupCall.participants) :
            groupCall.participants[i].user # groupCall.initiator

\* the step is user u asking to join the group call, over either path
JoinStep(u) ==
    \/ \E s \in sockets : s.userId = u /\ GroupCallJoin(s, TheGroupCallId)
    \/ RestGroupJoin(u)

\* C21: a join is accepted only from a member of the group and only while
\* the call is initiated or active: a join from a non-member, or on an
\* ended call, is rejected, changes neither roster nor status, and sends
\* no group-call-participant-joined or group-call-participants event.
C21_JoinOnlyByMemberOfRunningCall ==
    [][\A u \in Users :
         (/\ groupCall.exists
          /\ (u \notin Members \/ groupCall.status = "ended")
          /\ JoinStep(u)) =>
             /\ ~lastOp'.ok
             /\ groupCall' = groupCall
             /\ EventsNamed(emitted', "group-call-participant-joined") = {}
             /\ EventsNamed(emitted', "group-call-participants") = {}]_vars

\* C22: when a participant other than the host leaves, over either path,
\* that participant is marked inactive with a leftAt timestamp, and when
\* no active participant is left the status of the call becomes ended.
C22_LeaverMarkedInactive ==
    [][\A u \in Users :
         (/\ groupCall.exists
          /\ groupCall.status \in {"initiated", "active"}
          /\ u # groupCall.initiator
          /\ isUserInCall(groupCall, u)
          /\ LeaveStep(u)
          /\ lastOp'.ok) =>
             /\ ~isUserInCall(groupCall', u)
             /\ \A i \in 1..Len(groupCall'.participants) :
                    (groupCall'.participants[i].user = u) =>
                        groupCall'.participants[i].leftAt >= 0
             /\ (ActiveIndexes(groupCall') = {}) => groupCall'.status = "ended"]_vars

\* the connections a negotiation event of a sequence was delivered to
NegotiationReceivers(seq) ==
    {seq[i].to : i \in EventsNamed(seq, "group-call-offer")
                        \cup EventsNamed(seq, "group-call-answer")
                        \cup EventsNamed(seq, "group-call-ice-candidate")}

\* the presence entries of the members of the group other than user u
OtherMemberEntries(u) ==
    {activeUsers[m] : m \in {x \in Members \ {u} : activeUsers[x] # NoSocket}}

\* C27: group negotiation relay.  With a targetUserId the offer, answer or
\* ICE candidate is delivered to that user's registered connection and to
\* no other; an ICE candidate sent without a targetUserId is delivered to
\* every member of the group other than the sender that has a presence
\* entry, and never back to the sender.
C27_GroupRelayTargetedOrToMembers ==
    [][\A s \in sockets :
         /\ \A t \in Users :
               (\/ GroupCallOffer(s, TheGroupCallId, TheGroupId, t, "sdp")
                \/ GroupCallAnswer(s, TheGroupCallId, TheGroupId, t, "sdp")
                \/ GroupCallIceCandidate_server(s, TheGroupCallId, TheGroupId, t, "cand")
                \/ GroupCallIceCandidate_part013(s, TheGroupCallId, TheGroupId, t, "cand")) =>
                   NegotiationReceivers(emitted') =
                       IF activeUsers[t] # NoSocket THEN {activeUsers[t]} ELSE {}
         /\ (\/ GroupCallIceCandidate_server(s, TheGroupCallId, TheGroupId, Null, "cand")
             \/ GroupCallIceCandidate_part013(s, TheGroupCallId, TheGroupId, Null, "cand")) =>
                   NegotiationReceivers(emitted') = OtherMemberEntries(s.userId)]_vars

\* the step is user u initiating a group call of the group, over either path
GroupInitiateStep(u) ==
    \/ \E s \in sockets : s.userId = u /\ GroupCallInitiate(s, TheGroupId)
    \/ RestGroupInitiate(u)

\* C28: initiating a group call requires the initiator to be a member of
\* the group.  A member's socket initiate delivers exactly one
\* incoming-group-call to each other member with a presence entry, none to
\* the initiator, none to non-members, and no error; an initiate by a
\* non-member is refused and notifies nobody.
C28_InitiateByMemberNotifiesMembers ==
    [][\A u \in Users :
         /\ (u \notin Members /\ GroupInitiateStep(u)) =>
                /\ ~lastOp'.ok
                /\ EventsNamed(emitted', "incoming-group-call") = {}
         /\ \A s \in sockets :
               (/\ u \in Members
                /\ s.userId = u
                /\ GroupCallInitiate(s, TheGroupId)) =>
                   /\ {emitted'[i].to : i \in EventsNamed(emitted', "incoming-group-call")}
                          = OtherMemberEntries(u)
                   /\ Cardinality(EventsNamed(emitted', "incoming-group-call"))
                          = Cardinality(OtherMemberEntries(u))
                   /\ EventsNamed(emitted', "group-call-error") = {}]_vars

\* C30: at most one GroupCall of the group has status initiated or active
\* at any time, also when the POST /initiate requests of two members
\* interleave between the existing-call check and the creation.
C30_OneRunningCallPerGroup ==
    Cardinality(ExistingCalls(groupCalls)) <= 1

\* C6: after every join or leave the users with an active persisted entry
\* are exactly the users listed in the most recent group-call-participants
\* event.  Stated for the moments the claim is surest of: the call is
\* running, a roster event has been emitted, and a socket join or leave,
\* the handler that broadcasts the roster, has just completed.
C6_LastRosterEventIsActiveSet ==
    (/\ groupCall.exists
     /\ groupCall.status \in {"initiated", "active"}
     /\ lastOp.op \in {"group-call-join", "group-call-leave"}
     /\ lastOp.via = "socket"
     /\ lastOp.target = TheGroupCallId
     /\ lastOp.ok
     /\ lastRoster # <<>>) =>
        ActiveUserSet(groupCall) = Range(lastRoster)

\* C7: no user id appears in more than one participant entry (so a rejoin
\* reuses the entry the user had, and the roster keeps its length).
C7_OneEntryPerUser ==
    \A i, j \in 1..Len(groupCall.participants) :
        groupCall.participants[i].user = groupCall.participants[j].user => i = j

\* C8: when the host leaves a running call (socket or REST), every other
\* active participant with a presence entry is sent group-call-ended and
\* the status becomes ended.
C8_HostLeaveEndsCallForAll ==
    [][\A u \in Users :
        (/\ groupCall.exists
         /\ groupCall.initiator = u
         /\ groupCall.status \in {"initiated", "active"}
         /\ isUserInCall(groupCall, u)
         /\ LeaveStep(u)) =>
            /\ groupCall'.status = "ended"
            /\ \A v \in ActiveUserSet(groupCall) \ {u} :
                  activeUsers[v] # NoSocket =>
                      \E i \in EventsNamed(emitted', "group-call-ended") :
                          emitted'[i].to = activeUsers[v]]_vars

====
